---- MODULE Spec2Model ----
(***************************************************************************)
(* A model of web_monitoring/db.py: the Pages, Versions, Diffs and         *)
(* Annotations stores, the diff_version pipeline and the WorkQueue that    *)
(* hands Diffs to reviewers.                                               *)
(*                                                                         *)
(* Identities are uuid4 strings in the code.  Here an identity is a number *)
(* drawn from a finite pool, and a fresh Diff identity is ANY unused       *)
(* number of the pool, so that the order of identities says nothing about  *)
(* the order of insertion.  The WorkQueue is the one built over the Diffs  *)
(* store's own pending deque: WorkQueue(Diffs.unprocessed, diffs).         *)
(*                                                                         *)
(* Seven specifications share the state: Spec, the work queue's calls one  *)
(* after the other; SpecThreads, checkout_next statement by statement in   *)
(* one thread per reviewer; SpecPipeline, Versions.insert and diff_version *)
(* statement by statement; SpecFlow, the pipeline feeding the work queue;  *)
(* SpecDiffs, the Diffs store's insert and lookup; SpecVersions, the       *)
(* Versions store's insert, lookups and history generator; and             *)
(* SpecAnnotations, the Pages and Annotations stores.                      *)
(***************************************************************************)
EXTENDS Integers, Sequences, FiniteSets, TLC

\* ---------------------------------------------------------------- bounds
MaxDiffs == 2
NumReviewers == 3
MaxVersions == 3
NumPayloads == 1
NumPages == 2
MaxTime == 1
MaxAnnotations == 2

DiffIds == 1..MaxDiffs
\* An identity that no insert ever assigned (a string that is no Diff uuid).
BogusId == MaxDiffs + 1
Reviewers == 1..NumReviewers
VersionIds == 1..MaxVersions
\* The (version_from, version_to) arguments of a direct Diffs.insert call.
InsertArgs == {<<1, 2>>, <<2, 1>>}
Pages == 1..NumPages
Times == 0..MaxTime
\* File names: one per Diff, and one more for a file that an insert which did
\* not finish left behind.
Locators == 1..(MaxDiffs + 1)
\* The diff bodies (result['output']['diffs']) the diff service can return.
Bodies == 1..NumPayloads
\* The diff bodies of the results a caller passes to Diffs.insert itself.
InsertBodies == 1..(NumPayloads + 1)
AnnotationIds == 1..MaxAnnotations
\* The (version_from, version_to) arguments of Annotations.insert and by_change.
ChangeArgs == {<<1, 2>>, <<1, 3>>, <<2, 3>>}
\* The judgments (annotation) and the authors reviewers submit.
Judgments == {"significant"}
Authors == {"alice", "bob"}
\* The urls of the monitored Pages.
Urls == {"example.gov"}

VARIABLES
    diffs,        \* the Diffs table: uuid -> index record
    files,        \* the file store: locator -> what the file holds
    unprocessed,  \* Diffs.unprocessed, the pending deque (WorkQueue.priorities)
    checked_out,  \* WorkQueue.checked_out: reviewer -> diff uuid (a dict)
    last,         \* the last completed call with its outcome
    prev,         \* the completed call before it
    thread,       \* per reviewer thread: the frame of its checkout_next call
    versions,     \* the Versions table: uuid -> row
    job,          \* the pipeline thread: the frame of its diff_version call
    pages,        \* the Pages table: uuid -> row
    annotations,  \* the Annotations table: uuid -> row
    hist          \* the generator a Versions.history call returned: its frame

\* The Pages and Annotations tables and the history generator, which the work
\* queue and the diff pipeline never touch.
store == <<pages, annotations, hist>>

vars == <<diffs, files, unprocessed, checked_out, last, prev, thread, versions, job,
          pages, annotations, hist>>

\* ------------------------------------------------------- helper operators
Range(s) == {s[i] : i \in DOMAIN s}

\* A completed call: the operation, the calling reviewer, the Diff argument, what
\* the reviewer held when calling (held), and the outcome: the returned value
\* (ret) or the kind of the exception raised (err).
NoCall == [op |-> "none", user |-> 0, arg |-> <<>>, held |-> <<>>,
           ret |-> <<>>, err |-> ""]

Call(op, user, arg, held, ret, err) ==
    [op |-> op, user |-> user, arg |-> arg, held |-> held, ret |-> ret, err |-> err]

Held(co, user_id) == IF user_id \in DOMAIN co THEN <<co[user_id]>> ELSE <<>>

Record(call) == last' = call /\ prev' = last

\* The frame of a reviewer thread's checkout_next call: where it is (pc), its
\* iterator over the priorities (i entries consumed, the deque's length n when
\* the iterator was made), the loop variable diff_uuid (d), and for an idle
\* thread the outcome of its last call (out): <<"ret", uuid>> or <<"err", kind>>.
Idle(out) == [pc |-> "idle", i |-> 0, n |-> 0, d |-> <<>>, out |-> out]

Frame(pc, i, n, d) == [pc |-> pc, i |-> i, n |-> n, d |-> d, out |-> <<>>]

\* The frame of the pipeline thread's diff_version call: where it is (pc), its
\* argument version_uuid (v), the ancestor found (anc), the diff service's
\* response (result), and inside Diffs.insert the new identity (uuid) and the
\* file (path).  had and pend are the Diffs table's identities and the pending
\* deque as they were when the call began.
NoJob == [pc |-> "idle", v |-> 0, anc |-> 0, result |-> <<>>, uuid |-> 0, path |-> 0,
          had |-> {}, pend |-> <<>>]

\* The frame of a generator that Versions.history returned: where it is (pc:
\* "none" when there is no generator, "created" before its first next(), "open"
\* while the query's result is being fetched, "closed" when it has ended), its
\* argument page_uuid (page), the rows of the query's result not yet fetched
\* (rows), the Versions it has yielded (yielded), and how it ended (end).  had
\* is the set of the page's Versions when the query was executed.
NoGen == [pc |-> "none", page |-> 0, rows |-> <<>>, yielded |-> <<>>, end |-> "",
          had |-> {}]

\* ------------------------------------------------------------ Diffs store
\* sha256(str(diffs)).hexdigest(): a digest of the diff body alone.
DiffHash(body) == <<"sha256", body>>

\* The payload the diff service returns for a diff body: result['output']['diffs']
\* plus what else the response carries.
Payload(body) == [output |-> [diffs |-> body], elapsed |-> "t"]

\* tempfile.NamedTemporaryFile(delete=False).name: a new, empty file.
NewFilepath(fs) == CHOOSE l \in Locators : l \notin DOMAIN fs /\
                       \A m \in Locators : m \notin DOMAIN fs => l <= m

\* A string as JSON writes it, in double quotes, and as Python's str() of a
\* dict writes it, in single quotes.
JsonString(s) == <<"json", s>>

PyRepr(s) == <<"repr", s>>

\* A file written with str(result): the dict as Python prints it.
StrDump(result) ==
    <<"{", PyRepr("output"), ":", "{", PyRepr("diffs"), ":", result.output.diffs, "}",
      ",", PyRepr("elapsed"), ":", PyRepr(result.elapsed), "}">>

\* json.dump(result, f): the text written, token by token.
JsonDump(result) ==
    <<"{", JsonString("output"), ":", "{", JsonString("diffs"), ":",
      result.output.diffs, "}", ",", JsonString("elapsed"), ":",
      JsonString(result.elapsed), "}">>

\* Whether json.load can parse the text as a payload.
IsJson(text) ==
    /\ Len(text) = 13
    /\ <<text[1], text[3], text[4], text[6], text[8], text[9], text[11], text[13]>>
          = <<"{", ":", "{", ":", "}", ",", ":", "}">>
    /\ <<text[2], text[5], text[10]>>
          = <<JsonString("output"), JsonString("diffs"), JsonString("elapsed")>>
    /\ text[12][1] = "json"

\* json.load(f): the dict the text stands for.
JsonLoad(text) == [output |-> [diffs |-> text[7]], elapsed |-> text[12][2]]

\* with open(filepath, 'w') as f: json.dump(result, f)
WriteFile(fs, path, result) ==
    [l \in DOMAIN fs \cup {path} |-> IF l = path THEN <<JsonDump(result)>> ELSE fs[l]]

\* engine.execute(table.insert().values(...)): one new row.
InsertRow(table, uuid, row) ==
    [k \in DOMAIN table \cup {uuid} |-> IF k = uuid THEN row ELSE table[k]]

\* A row with the two Versions in each other's column.
DiffRowSwapped(version_from, version_to, result, filepath) ==
    [version_from |-> version_to, version_to |-> version_from,
     diffhash |-> DiffHash(result.output.diffs), uri |-> filepath]

DiffRow(version_from, version_to, result, filepath) ==
    [version_from |-> version_from, version_to |-> version_to,
     diffhash |-> DiffHash(result.output.diffs), uri |-> filepath]

\* Diffs.__getitem__: the row and, read from its uri, the content.
\* A missing row makes result[:-2] a TypeError, a missing file makes open fail
\* and a file that holds no JSON text makes json.load fail.
DiffsGetItem(table, fs, uuid) ==
    IF uuid \notin DOMAIN table THEN [ret |-> <<>>, err |-> "TypeError"]
    ELSE IF table[uuid].uri \notin DOMAIN fs THEN [ret |-> <<>>, err |-> "IOError"]
    ELSE IF fs[table[uuid].uri] = <<>> THEN [ret |-> <<>>, err |-> "ValueError"]
    ELSE IF ~IsJson(fs[table[uuid].uri][1]) THEN [ret |-> <<>>, err |-> "ValueError"]
    ELSE [ret |-> <<[uuid |-> uuid,
                     version_from |-> table[uuid].version_from,
                     version_to |-> table[uuid].version_to,
                     diffhash |-> table[uuid].diffhash,
                     uri |-> table[uuid].uri,
                     content |-> JsonLoad(fs[table[uuid].uri][1])]>>,
          err |-> ""]

\* What a completed Diffs.insert leaves behind: the file, the row, the deque entry.
Inserted(uuid, version_from, version_to, result) ==
    /\ \E l \in Locators : l \notin DOMAIN files
    /\ LET filepath == NewFilepath(files) IN
        /\ files' = WriteFile(files, filepath, result)
        /\ diffs' = InsertRow(diffs, uuid,
                         DiffRow(version_from, version_to, result, filepath))
        /\ unprocessed' = Append(unprocessed, uuid)

\* Diffs.insert as one completed call, with a result of one of the bodies.
DiffsInsertOf(bodies) ==
    /\ \E uuid \in DiffIds \ DOMAIN diffs, body \in bodies, vs \in InsertArgs :
        /\ Inserted(uuid, vs[1], vs[2], Payload(body))
        /\ Record(Call("insert", 0, <<vs[1], vs[2], Payload(body)>>, <<>>, <<uuid>>, ""))
    /\ UNCHANGED <<checked_out, thread, versions, job, store>>

DiffsInsert == DiffsInsertOf(Bodies)

\* Diffs.__getitem__ as one completed call.
DiffsLookup(uuid) ==
    LET got == DiffsGetItem(diffs, files, uuid) IN
    /\ Record(Call("getitem", 0, <<uuid>>, <<>>, got.ret, got.err))
    /\ UNCHANGED <<diffs, files, unprocessed, checked_out, thread, versions, job, store>>

\* The Diffs store on its own: callers insert results, of more diff bodies than
\* the diff service returns, and look Diffs up.
NextDiffs ==
    \/ DiffsInsertOf(InsertBodies)
    \/ \E uuid \in DOMAIN diffs \cup {BogusId} : DiffsLookup(uuid)

\* -------------------------------------------------------------- WorkQueue
priorities == unprocessed

\* A scan that tests the claim map itself (its keys), not its values.
ValuesAsKeys(co) == DOMAIN co

\* self.checked_out.values()
Values(co) == {co[u] : u \in DOMAIN co}

\* self.checked_out[user_id] = diff_uuid
SetClaim(co, user_id, diff_uuid) ==
    [u \in DOMAIN co \cup {user_id} |-> IF u = user_id THEN diff_uuid ELSE co[u]]

\* A pop that leaves the entry in place.
PopClaimKeeps(co, user_id) == co

\* self.checked_out.pop(user_id), for a key that is present
PopClaim(co, user_id) == [u \in DOMAIN co \ {user_id} |-> co[u]]

\* The for loop of checkout_next from position i on: the position of the first
\* identity that is not a value of the claim map, Len + 1 when the loop runs out.
RECURSIVE ScanFrom(_, _, _)
ScanFrom(prio, co, i) ==
    IF i > Len(prio) THEN i
    ELSE IF prio[i] \notin Values(co) THEN i
    ELSE ScanFrom(prio, co, i + 1)

\* A scan that takes the head of the list whoever holds it.
FirstEntry(prio, co) == 1

FirstUnclaimed(prio, co) == ScanFrom(prio, co, 1)

\* A checkout_next that takes the Diff it hands out off the priority list.
CheckoutNextRemoves(user_id) ==
    LET i == FirstUnclaimed(priorities, checked_out) IN
    /\ IF i > Len(priorities)
       THEN /\ checked_out' = checked_out
            /\ unprocessed' = unprocessed
            /\ Record(Call("checkout_next", user_id, <<>>,
                           Held(checked_out, user_id), <<>>, "EmptyWorkQueue"))
       ELSE LET got == DiffsGetItem(diffs, files, priorities[i]) IN
            /\ checked_out' = SetClaim(checked_out, user_id, priorities[i])
            /\ unprocessed' = SubSeq(unprocessed, 1, i - 1)
                                 \o SubSeq(unprocessed, i + 1, Len(unprocessed))
            /\ Record(Call("checkout_next", user_id, <<>>,
                           Held(checked_out, user_id), got.ret, got.err))
    /\ UNCHANGED <<diffs, files, thread, versions, job, store>>

CheckoutNext(user_id) ==
    LET i == FirstUnclaimed(priorities, checked_out) IN
    /\ IF i > Len(priorities)
       THEN /\ checked_out' = checked_out
            /\ Record(Call("checkout_next", user_id, <<>>,
                           Held(checked_out, user_id), <<>>, "EmptyWorkQueue"))
       ELSE LET got == DiffsGetItem(diffs, files, priorities[i]) IN
            /\ checked_out' = SetClaim(checked_out, user_id, priorities[i])
            /\ Record(Call("checkout_next", user_id, <<>>,
                           Held(checked_out, user_id), got.ret, got.err))
    /\ UNCHANGED <<diffs, files, unprocessed, thread, versions, job, store>>

\* checkin: pop raises KeyError for a reviewer who holds nothing.
CheckinResult(co, user_id) ==
    IF user_id \in DOMAIN co
    THEN [co |-> PopClaim(co, user_id), err |-> ""]
    ELSE [co |-> co, err |-> "KeyError"]

Checkin(user_id) ==
    LET r == CheckinResult(checked_out, user_id) IN
    /\ checked_out' = r.co
    /\ Record(Call("checkin", user_id, <<>>, Held(checked_out, user_id), <<>>, r.err))
    /\ UNCHANGED <<diffs, files, unprocessed, thread, versions, job, store>>

\* checkout with the claim recorded before the check-in of the old one.
CheckoutClaimsSwapped(co, user_id, diff_uuid) ==
    IF user_id \in DOMAIN co
    THEN CheckinResult(SetClaim(co, user_id, diff_uuid), user_id).co
    ELSE SetClaim(co, user_id, diff_uuid)

\* checkout: check in what the reviewer holds, record the claim, load the Diff.
CheckoutClaims(co, user_id, diff_uuid) ==
    SetClaim(IF user_id \in DOMAIN co THEN CheckinResult(co, user_id).co ELSE co,
             user_id, diff_uuid)

Checkout(user_id, diff_uuid) ==
    LET got == DiffsGetItem(diffs, files, diff_uuid) IN
    /\ checked_out' = CheckoutClaims(checked_out, user_id, diff_uuid)
    /\ Record(Call("checkout", user_id, <<diff_uuid>>, Held(checked_out, user_id),
                   got.ret, got.err))
    /\ UNCHANGED <<diffs, files, unprocessed, thread, versions, job, store>>

\* ---------------------------------------------------------- specification
Init ==
    /\ diffs = <<>>
    /\ files = <<>>
    /\ unprocessed = <<>>
    /\ checked_out = <<>>
    /\ last = NoCall
    /\ prev = NoCall
    /\ thread = [u \in Reviewers |-> Idle(<<>>)]
    /\ versions = <<>>
    /\ job = NoJob
    /\ pages = <<>>
    /\ annotations = <<>>
    /\ hist = NoGen

Next ==
    \/ DiffsInsert
    \/ \E u \in Reviewers : CheckoutNext(u)
    \/ \E u \in Reviewers : Checkin(u)
    \/ \E u \in Reviewers, d \in DOMAIN diffs \cup {BogusId} : Checkout(u, d)

Spec == Init /\ [][Next]_vars

SpecDiffs == Init /\ [][NextDiffs]_vars

\* ------------------------------------------- WorkQueue, one thread per reviewer
\* checkout_next holds no lock, and the interpreter may switch threads between
\* any two of its statements.
Goto(user_id, frame) == thread' = [thread EXCEPT ![user_id] = frame]

\* The call, up to iter(self.priorities).
CnCall(user_id) ==
    /\ thread[user_id].pc = "idle"
    /\ Goto(user_id, Frame("for", 0, Len(priorities), <<>>))
    /\ UNCHANGED <<diffs, files, unprocessed, checked_out, last, prev, versions, job, store>>

\* for diff_uuid in self.priorities: the next entry of the deque, RuntimeError
\* when the deque was appended to since the iterator was made, EmptyWorkQueue
\* when the loop runs out.
CnFor(user_id) ==
    LET f == thread[user_id] IN
    /\ f.pc = "for"
    /\ IF Len(priorities) # f.n
       THEN Goto(user_id, Idle(<<"err", "RuntimeError">>))
       ELSE IF f.i = f.n
       THEN Goto(user_id, Idle(<<"err", "EmptyWorkQueue">>))
       ELSE Goto(user_id, Frame("if", f.i + 1, f.n, <<priorities[f.i + 1]>>))
    /\ UNCHANGED <<diffs, files, unprocessed, checked_out, last, prev, versions, job, store>>

\* if diff_uuid not in self.checked_out.values():
CnIf(user_id) ==
    LET f == thread[user_id] IN
    /\ f.pc = "if"
    /\ IF f.d[1] \notin Values(checked_out)
       THEN Goto(user_id, Frame("claim", f.i, f.n, f.d))
       ELSE Goto(user_id, Frame("for", f.i, f.n, <<>>))
    /\ UNCHANGED <<diffs, files, unprocessed, checked_out, last, prev, versions, job, store>>

\* self.checked_out[user_id] = diff_uuid
CnClaim(user_id) ==
    LET f == thread[user_id] IN
    /\ f.pc = "claim"
    /\ checked_out' = SetClaim(checked_out, user_id, f.d[1])
    /\ Goto(user_id, Frame("return", f.i, f.n, f.d))
    /\ UNCHANGED <<diffs, files, unprocessed, last, prev, versions, job, store>>

\* return self.diffs[diff_uuid]
CnReturn(user_id) ==
    LET f == thread[user_id]
        got == DiffsGetItem(diffs, files, f.d[1]) IN
    /\ f.pc = "return"
    /\ IF got.err = ""
       THEN Goto(user_id, Idle(<<"ret", got.ret[1].uuid>>))
       ELSE Goto(user_id, Idle(<<"err", got.err>>))
    /\ UNCHANGED <<diffs, files, unprocessed, checked_out, last, prev, versions, job, store>>

\* checkin by a thread that is in no other call: one dict.pop.
ThreadCheckin(user_id) ==
    LET r == CheckinResult(checked_out, user_id) IN
    /\ thread[user_id].pc = "idle"
    /\ checked_out' = r.co
    /\ Goto(user_id, Idle(IF r.err = "" THEN <<>> ELSE <<"err", r.err>>))
    /\ UNCHANGED <<diffs, files, unprocessed, last, prev, versions, job, store>>

\* The diff pipeline's thread: a completed Diffs.insert.
ThreadInsert ==
    /\ \E uuid \in DiffIds \ DOMAIN diffs, body \in Bodies, vs \in InsertArgs :
          Inserted(uuid, vs[1], vs[2], Payload(body))
    /\ UNCHANGED <<checked_out, last, prev, thread, versions, job, store>>

NextThreads ==
    \/ ThreadInsert
    \/ \E u \in Reviewers : CnCall(u)
    \/ \E u \in Reviewers : CnFor(u)
    \/ \E u \in Reviewers : CnIf(u)
    \/ \E u \in Reviewers : CnClaim(u)
    \/ \E u \in Reviewers : CnReturn(u)
    \/ \E u \in Reviewers : ThreadCheckin(u)

SpecThreads == Init /\ [][NextThreads]_vars

\* ------------------------------------------------ Versions and diff_version
\* The row of a Versions.insert, under a new identity (the least unused number:
\* nothing in the code reads the order of Version identities).
VersionsInserted(uuid, page_uuid, capture_time) ==
    /\ uuid \in VersionIds \ DOMAIN versions
    /\ \A w \in VersionIds \ DOMAIN versions : uuid <= w
    /\ versions' = InsertRow(versions, uuid,
                        [page_uuid |-> page_uuid, capture_time |-> capture_time])

VersionsInsert ==
    /\ \E uuid \in VersionIds, page_uuid \in Pages, capture_time \in Times :
          VersionsInserted(uuid, page_uuid, capture_time)
    /\ UNCHANGED <<diffs, files, unprocessed, checked_out, last, prev, thread, job, store>>

\* The rows Versions.oldest(page_uuid) may return: ORDER BY capture_time with
\* fetchone() gives a row of the least capture_time, and which one among several
\* of the same capture_time the database does not say.
OldestRows(table, page_uuid) ==
    {w \in DOMAIN table :
        /\ table[w].page_uuid = page_uuid
        /\ \A x \in DOMAIN table :
              table[x].page_uuid = page_uuid =>
                  table[w].capture_time <= table[x].capture_time}

\* The call ends: the frame is dropped and the outcome is the last call's (the
\* call before, prev, is kept for the work queue's calls alone).
Finish(v, ret, err) ==
    /\ job' = NoJob
    /\ last' = Call("diff_version", 0, <<v>>, <<>>, ret, err)
    /\ prev' = prev

\* The call goes on to its next statement.
Step(frame) == job' = frame /\ UNCHANGED <<last, prev>>

\* diff_version(version_uuid, ...): versions[version_uuid], where a missing row
\* makes result[:-2] a TypeError.
DvCall(version_uuid) ==
    /\ job.pc = "idle"
    /\ DOMAIN diffs # DiffIds
    /\ IF version_uuid \in DOMAIN versions
       THEN Step([job EXCEPT !.pc = "oldest", !.v = version_uuid,
                             !.had = DOMAIN diffs, !.pend = unprocessed])
       ELSE Finish(version_uuid, <<>>, "TypeError")
    /\ UNCHANGED <<diffs, files, unprocessed, checked_out, thread, versions, store>>

\* ancestor = versions.oldest(version.page_uuid); NoAncestor when it is the
\* Version itself.
DvOldest ==
    /\ job.pc = "oldest"
    /\ \E ancestor \in OldestRows(versions, versions[job.v].page_uuid) :
          IF ancestor = job.v
          THEN Finish(job.v, <<>>, "NoAncestor")
          ELSE Step([job EXCEPT !.pc = "compare", !.anc = ancestor])
    /\ UNCHANGED <<diffs, files, unprocessed, checked_out, thread, versions, store>>

\* What reading the two HTML files and compare(html1, html2) can come to: a file
\* that cannot be read, a request that fails, or the service's response, with a
\* status and, when the status is 'ok', a result.
CompareOutcomes ==
    {[err |-> "IOError", response |-> <<>>],
     [err |-> "ConnectionError", response |-> <<>>],
     [err |-> "", response |-> <<[status |-> "error"]>>]}
    \cup {[err |-> "", response |-> <<[status |-> "ok", result |-> Payload(b)]>>] :
              b \in Bodies}

\* html1 = open(ancestor.uri).read(); html2 = ...; result = compare(html1, html2)
DvCompare ==
    /\ job.pc = "compare"
    /\ \E o \in CompareOutcomes :
          IF o.err # ""
          THEN Finish(job.v, <<>>, o.err)
          ELSE Step([job EXCEPT !.pc = "status", !.result = o.response])
    /\ UNCHANGED <<diffs, files, unprocessed, checked_out, thread, versions, store>>

\* The error diff_version raises for a response.
StatusError(response) == IF response.status # "ok" THEN "PageFreezerError" ELSE ""

\* if result['status'] != 'ok': raise PageFreezerError; else Diffs.insert is
\* called with result['result'].
DvStatus ==
    /\ job.pc = "status"
    /\ IF StatusError(job.result[1]) # ""
       THEN Finish(job.v, <<>>, StatusError(job.result[1]))
       ELSE Step([job EXCEPT !.pc = "newfile", !.result = <<job.result[1].result>>])
    /\ UNCHANGED <<diffs, files, unprocessed, checked_out, thread, versions, store>>

\* Diffs.insert: the hash, the new identity, and _get_new_filepath, which
\* creates the file, empty.
InsNewFile ==
    /\ job.pc = "newfile"
    /\ \E l \in Locators : l \notin DOMAIN files
    /\ \E uuid \in DiffIds \ DOMAIN diffs :
          LET filepath == NewFilepath(files) IN
          /\ files' = [l \in DOMAIN files \cup {filepath} |->
                          IF l = filepath THEN <<>> ELSE files[l]]
          /\ Step([job EXCEPT !.pc = "write", !.uuid = uuid, !.path = filepath])
    /\ UNCHANGED <<diffs, unprocessed, checked_out, thread, versions, store>>

\* An insert that goes on to the index row with the payload not yet written.
InsWriteAfterRow ==
    /\ job.pc = "write"
    /\ files' = files
    /\ \/ Step([job EXCEPT !.pc = "row"])
       \/ Finish(job.v, <<>>, "IOError")
    /\ UNCHANGED <<diffs, unprocessed, checked_out, thread, versions, store>>

\* with open(filepath, 'w') as f: json.dump(result, f), or an IOError that
\* leaves the file without the payload.
InsWrite ==
    /\ job.pc = "write"
    /\ \/ /\ files' = WriteFile(files, job.path, job.result[1])
          /\ Step([job EXCEPT !.pc = "row"])
       \/ /\ files' = files
          /\ Finish(job.v, <<>>, "IOError")
    /\ UNCHANGED <<diffs, unprocessed, checked_out, thread, versions, store>>

\* self.engine.execute(self.table.insert().values(values)), or the database's
\* error and no row.
InsRow ==
    /\ job.pc = "row"
    /\ \/ /\ diffs' = InsertRow(diffs, job.uuid,
                          DiffRow(job.anc, job.v, job.result[1], job.path))
          /\ Step([job EXCEPT !.pc = "append"])
       \/ /\ diffs' = diffs
          /\ Finish(job.v, <<>>, "StorageError")
    /\ UNCHANGED <<files, unprocessed, checked_out, thread, versions, store>>

\* An insert that puts the new identity at the head of the deque (appendleft).
InsAppendLeft ==
    /\ job.pc = "append"
    /\ unprocessed' = <<job.uuid>> \o unprocessed
    /\ Finish(job.v, <<>>, "")
    /\ UNCHANGED <<diffs, files, checked_out, thread, versions, store>>

\* self.unprocessed.append(_uuid); Diffs.insert returns _uuid, and diff_version
\* returns nothing.
InsAppend ==
    /\ job.pc = "append"
    /\ unprocessed' = Append(unprocessed, job.uuid)
    /\ Finish(job.v, <<>>, "")
    /\ UNCHANGED <<diffs, files, checked_out, thread, versions, store>>

\* The pipeline thread is cancelled (killed) between two steps of its call: the
\* call neither returns nor raises.
Cancel ==
    /\ job.pc # "idle"
    /\ Finish(job.v, <<>>, "cancelled")
    /\ UNCHANGED <<diffs, files, unprocessed, checked_out, thread, versions, store>>

NextPipeline ==
    \/ VersionsInsert
    \/ \E v \in VersionIds : DvCall(v)
    \/ DvOldest
    \/ DvCompare
    \/ DvStatus
    \/ InsNewFile
    \/ InsWrite
    \/ InsRow
    \/ InsAppend
    \/ Cancel

SpecPipeline == Init /\ [][NextPipeline]_vars

\* ------------------------------------------------- pipeline and work queue
\* The flow of the system: the Versions of one Page are stored, the first
\* captured at time 0 and the others at MaxTime; the pipeline thread diffs them
\* while reviewers check Diffs out of the pending deque and in again.
InitFlow ==
    /\ diffs = <<>>
    /\ files = <<>>
    /\ unprocessed = <<>>
    /\ checked_out = <<>>
    /\ last = NoCall
    /\ prev = NoCall
    /\ thread = [u \in Reviewers |-> Idle(<<>>)]
    /\ versions = [w \in VersionIds |->
                     [page_uuid |-> 1, capture_time |-> IF w = 1 THEN 0 ELSE MaxTime]]
    /\ job = NoJob
    /\ pages = <<>>
    /\ annotations = <<>>
    /\ hist = NoGen

NextFlow ==
    \/ \E v \in VersionIds : DvCall(v)
    \/ DvOldest
    \/ DvCompare
    \/ DvStatus
    \/ InsNewFile
    \/ InsWrite
    \/ InsRow
    \/ InsAppend
    \/ Cancel
    \/ \E u \in Reviewers : CheckoutNext(u)
    \/ \E u \in Reviewers : Checkin(u)

SpecFlow == InitFlow /\ [][NextFlow]_vars

\* --------------------------------------------------------- entity stores
\* datetime.datetime.utcnow(): the time of the call (one value: no claim reads a
\* timestamp for its time).
Now == "utcnow"

PAGES_COLUMNS == <<"uuid", "url", "title", "agency", "site", "created_at", "updated_at">>

ANNOTATIONS_COLUMNS == <<"uuid", "version_from", "version_to", "annotation", "author",
                         "created_at", "updated_at">>

PageNt == <<"uuid", "url", "title", "agency", "site">>

AnnotationNt == <<"uuid", "version_from", "version_to", "annotation", "author">>

\* The value of a column that an insert gives no value: its default.
ColumnDefault(column) ==
    IF column \in {"created_at", "updated_at"} THEN Now ELSE "NULL"

\* table.insert().values(values) with a tuple: the values go to the table's
\* columns by position, zip(table.c, values), and the columns left over get
\* their defaults.
RowOfValues(columns, values) ==
    [i \in 1..Len(columns) |->
        IF i <= Len(values) THEN values[i] ELSE ColumnDefault(columns[i])]

\* select().where(c.uuid == uuid) ... fetchone(): the row, or None (<<>>).
Fetchone(table, uuid) == IF uuid \in DOMAIN table THEN <<table[uuid]>> ELSE <<>>

\* self.nt(*result[:-2]): None[:-2] is a TypeError, and so is a number of values
\* other than the named tuple's number of fields.
NtOfRow(nt, result) ==
    IF result = <<>> THEN [ret |-> <<>>, err |-> "TypeError"]
    ELSE IF Len(result[1]) - 2 # Len(nt) THEN [ret |-> <<>>, err |-> "TypeError"]
    ELSE [ret |-> <<[f \in Range(nt) |->
                       result[1][CHOOSE i \in 1..Len(nt) : nt[i] = f]]>>,
          err |-> ""]

\* Pages.insert
PagesInsert ==
    /\ \E uuid \in Pages \ DOMAIN pages, url \in Urls :
        /\ \A w \in Pages \ DOMAIN pages : uuid <= w
        /\ pages' = InsertRow(pages, uuid,
                        RowOfValues(PAGES_COLUMNS,
                            <<uuid, url, "title", "agency", "site", Now, Now>>))
        /\ Record(Call("Pages.insert", 0, <<url>>, <<>>, <<uuid>>, ""))
    /\ UNCHANGED <<diffs, files, unprocessed, checked_out, thread, versions, job,
                   annotations, hist>>

\* Pages.__getitem__
PagesGetItem(uuid) ==
    LET got == NtOfRow(PageNt, Fetchone(pages, uuid)) IN
    /\ Record(Call("Pages.getitem", 0, <<uuid>>, <<>>, got.ret, got.err))
    /\ UNCHANGED <<diffs, files, unprocessed, checked_out, thread, versions, job, store>>

\* values = (_uuid, version_from, version_to, annotation, now, now): the author
\* is not among them.
AnnotationValues(uuid, version_from, version_to, annotation, author) ==
    <<uuid, version_from, version_to, annotation, Now, Now>>

\* Annotations.insert
AnnotationsInsert ==
    /\ \E uuid \in AnnotationIds \ DOMAIN annotations, vs \in ChangeArgs,
          annotation \in Judgments, author \in Authors :
        /\ \A w \in AnnotationIds \ DOMAIN annotations : uuid <= w
        /\ annotations' = InsertRow(annotations, uuid,
                              RowOfValues(ANNOTATIONS_COLUMNS,
                                  AnnotationValues(uuid, vs[1], vs[2], annotation, author)))
        /\ Record(Call("Annotations.insert", 0, <<vs[1], vs[2], annotation, author>>,
                       <<>>, <<uuid>>, ""))
    /\ UNCHANGED <<diffs, files, unprocessed, checked_out, thread, versions, job,
                   pages, hist>>

\* Annotations.__getitem__
AnnotationsGetItem(uuid) ==
    LET got == NtOfRow(AnnotationNt, Fetchone(annotations, uuid)) IN
    /\ Record(Call("Annotations.getitem", 0, <<uuid>>, <<>>, got.ret, got.err))
    /\ UNCHANGED <<diffs, files, unprocessed, checked_out, thread, versions, job, store>>

\* self.table.c.<name> == value: a clause object over the column and the bound
\* value.
ColumnEq(name, value) == [left |-> <<"column", name>>, right |-> <<"bind", value>>]

\* bool(clause), which Python's `and` asks of its first operand: for an ==
\* clause, whether its two operands are one and the same object.  A column and
\* a bound value never are.
ClauseBool(clause) == clause.left = clause.right

\* a and b in Python: a when bool(a) is false, b otherwise.
PyAnd(a, b) == IF ClauseBool(a) THEN b ELSE a

\* Whether a row satisfies a clause of the WHERE.
RowMatches(columns, row, clause) ==
    row[CHOOSE i \in 1..Len(columns) : columns[i] = clause.left[2]] = clause.right[2]

\* Annotations.by_change: the rows the WHERE selects, each as a named tuple
\* (the list's order is the database's; it is returned here as a set).
ByChangeResult(table, version_from, version_to) ==
    LET where == PyAnd(ColumnEq("version_from", version_from),
                       ColumnEq("version_to", version_to)) IN
    {NtOfRow(AnnotationNt, <<table[a]>>).ret[1] :
        a \in {b \in DOMAIN table : RowMatches(ANNOTATIONS_COLUMNS, table[b], where)}}

ByChange(version_from, version_to) ==
    /\ Record(Call("by_change", 0, <<version_from, version_to>>, <<>>,
                   <<ByChangeResult(annotations, version_from, version_to)>>, ""))
    /\ UNCHANGED <<diffs, files, unprocessed, checked_out, thread, versions, job, store>>

NextAnnotations ==
    \/ PagesInsert
    \/ \E uuid \in Pages \cup {NumPages + 1} : PagesGetItem(uuid)
    \/ AnnotationsInsert
    \/ \E uuid \in AnnotationIds \cup {MaxAnnotations + 1} : AnnotationsGetItem(uuid)
    \/ \E vs \in ChangeArgs : ByChange(vs[1], vs[2])

SpecAnnotations == Init /\ [][NextAnnotations]_vars

\* ------------------------------------------------- Versions: the lookups
\* Versions.insert as one completed call.
VersionsInsertCall ==
    /\ \E uuid \in VersionIds, page_uuid \in Pages, capture_time \in Times :
        /\ VersionsInserted(uuid, page_uuid, capture_time)
        /\ Record(Call("Versions.insert", 0, <<page_uuid, capture_time>>, <<>>,
                       <<uuid>>, ""))
    /\ UNCHANGED <<diffs, files, unprocessed, checked_out, thread, job, store>>

\* The named tuple of a Versions row, or the TypeError of None[:-2].
VersionNt(table, found) ==
    IF found = <<>> THEN [ret |-> <<>>, err |-> "TypeError"]
    ELSE [ret |-> <<[uuid |-> found[1],
                     page_uuid |-> table[found[1]].page_uuid,
                     capture_time |-> table[found[1]].capture_time]>>,
          err |-> ""]

\* Versions.__getitem__
VersionsGetItem(uuid) ==
    LET got == VersionNt(versions, IF uuid \in DOMAIN versions THEN <<uuid>> ELSE <<>>) IN
    /\ Record(Call("Versions.getitem", 0, <<uuid>>, <<>>, got.ret, got.err))
    /\ UNCHANGED <<diffs, files, unprocessed, checked_out, thread, versions, job, store>>

\* Versions.oldest: fetchone() of the rows of the page by capture_time, None
\* for a page without Versions.
VersionsOldest(page_uuid) ==
    /\ \E found \in IF OldestRows(versions, page_uuid) = {} THEN {<<>>}
                    ELSE {<<w>> : w \in OldestRows(versions, page_uuid)} :
          LET got == VersionNt(versions, found) IN
          Record(Call("oldest", 0, <<page_uuid>>, <<>>, got.ret, got.err))
    /\ UNCHANGED <<diffs, files, unprocessed, checked_out, thread, versions, job, store>>

\* The Versions of a page.
VersionsOf(table, page_uuid) == {w \in DOMAIN table : table[w].page_uuid = page_uuid}

\* The results the history query may have: the rows of the page, each once,
\* ORDER BY capture_time DESC (rows of one capture_time in any order).
HistoryRows(table, page_uuid) ==
    LET of == VersionsOf(table, page_uuid)
        n == Cardinality(of) IN
    {s \in [1..n -> of] :
        /\ \A i, j \in 1..n : i # j => s[i] # s[j]
        /\ \A i, j \in 1..n : i < j => table[s[i]].capture_time >= table[s[j]].capture_time}

\* How a generator ends whose body executes `raise StopIteration`: the iteration
\* ends (Python before 3.7), or the consumer gets a RuntimeError (PEP 479).
RaiseStopIteration == {"StopIteration", "RuntimeError"}

\* versions.history(page_uuid): a generator is made, and none of its body runs.
HistoryCall(page_uuid) ==
    /\ hist' = [NoGen EXCEPT !.pc = "created", !.page = page_uuid]
    /\ UNCHANGED <<diffs, files, unprocessed, checked_out, last, prev, thread, versions,
                   job, pages, annotations>>

\* next() of the generator: the first one executes the query; then fetchone(),
\* and either the row is yielded or, at None, StopIteration is raised.
HistoryNext ==
    /\ hist.pc \in {"created", "open"}
    /\ \E rows \in IF hist.pc = "created" THEN HistoryRows(versions, hist.page)
                   ELSE {hist.rows} :
          LET had == IF hist.pc = "created" THEN VersionsOf(versions, hist.page)
                     ELSE hist.had IN
          IF rows = <<>>
          THEN \E end \in RaiseStopIteration :
                  hist' = [hist EXCEPT !.pc = "closed", !.rows = <<>>, !.end = end,
                                       !.had = had]
          ELSE hist' = [hist EXCEPT !.pc = "open", !.rows = Tail(rows),
                                    !.yielded = Append(hist.yielded, Head(rows)),
                                    !.had = had]
    /\ UNCHANGED <<diffs, files, unprocessed, checked_out, last, prev, thread, versions,
                   job, pages, annotations>>

NextVersions ==
    \/ VersionsInsertCall
    \/ \E uuid \in VersionIds \cup {MaxVersions + 1} : VersionsGetItem(uuid)
    \/ \E page_uuid \in Pages : VersionsOldest(page_uuid)
    \/ \E page_uuid \in Pages : HistoryCall(page_uuid)
    \/ HistoryNext

SpecVersions == Init /\ [][NextVersions]_vars

\* ------------------------------------------------------------ properties
\* The Diff identities that some reviewer holds.
Claimed(co) == {co[u] : u \in DOMAIN co}

\* The positions of the pending list whose identity nobody holds.
FreePositions(pending, co) ==
    {i \in 1..Len(pending) : pending[i] \notin Claimed(co)}

Least(S) == CHOOSE i \in S : \A j \in S : i <= j

RetUuid(call) == call.ret[1].uuid

\* C1: in every reachable state of the work queue, whatever calls of
\* checkout_next, checkout and checkin were made, no two different reviewers
\* hold the same Diff identity.
C1_NoTwoReviewersHoldSameDiff ==
    \A u, v \in DOMAIN checked_out :
        u # v => checked_out[u] # checked_out[v]

\* C3: checkout_next(reviewer) claims and returns the first identity of the
\* priority list that is not a value of the claim map, recording reviewer ->
\* identity and changing no other entry; it raises EmptyWorkQueue exactly when
\* every identity of the list is claimed, and then leaves the claim map as it was.
C3_CheckoutNextFirstUnclaimed ==
    [][last'.op = "checkout_next" =>
        LET free == FreePositions(unprocessed, checked_out) IN
        IF free = {}
        THEN /\ last'.err = "EmptyWorkQueue"
             /\ last'.ret = <<>>
             /\ checked_out' = checked_out
        ELSE LET d == unprocessed[Least(free)] IN
             /\ last'.err = ""
             /\ Len(last'.ret) = 1
             /\ RetUuid(last') = d
             /\ checked_out' =
                  [v \in DOMAIN checked_out \cup {last'.user} |->
                      IF v = last'.user THEN d ELSE checked_out[v]]]_vars

\* C3 witness: pending [D1, D2]; one reviewer holds D1, a second one has just been
\* handed D2 by checkout_next, and a third one's checkout_next has just raised
\* EmptyWorkQueue.
C3_Witness ==
    /\ Len(unprocessed) = 2
    /\ prev.op = "checkout_next" /\ prev.err = "" /\ prev.held = <<>>
    /\ RetUuid(prev) = unprocessed[2]
    /\ last.op = "checkout_next" /\ last.err = "EmptyWorkQueue"
    /\ last.user # prev.user
    /\ last.user \notin DOMAIN checked_out
    /\ \E a \in DOMAIN checked_out :
          a # prev.user /\ checked_out[a] = unprocessed[1]
    /\ checked_out[prev.user] = unprocessed[2]

\* C4: checkout(reviewer, diff_id) by a reviewer who holds another Diff D_old
\* leaves the reviewer holding exactly diff_id and every other reviewer's claim
\* as it was, so that D_old is held by nobody unless another reviewer held it
\* too; and a checkout_next by another reviewer right after returns D_old when
\* D_old is the first unclaimed identity of the priority list.
C4_CheckoutReleasesOld ==
    [][/\ (last'.op = "checkout" /\ last'.held # <<>>
             /\ last'.held[1] # last'.arg[1]) =>
            /\ checked_out' =
                 [v \in DOMAIN checked_out |->
                     IF v = last'.user THEN last'.arg[1] ELSE checked_out[v]]
            /\ (last'.held[1] \in Claimed(checked_out') =>
                  \E v \in DOMAIN checked_out :
                      v # last'.user /\ checked_out[v] = last'.held[1])
       /\ (/\ last.op = "checkout" /\ last.held # <<>>
           /\ last.held[1] # last.arg[1]
           /\ last'.op = "checkout_next" /\ last'.user # last.user
           /\ FreePositions(unprocessed, checked_out) # {}
           /\ unprocessed[Least(FreePositions(unprocessed, checked_out))]
                 = last.held[1]) =>
            /\ last'.err = ""
            /\ Len(last'.ret) = 1
            /\ RetUuid(last') = last.held[1]]_vars

\* C4 witness: a reviewer who held D_old has checked out another Diff, and the
\* checkout_next of another reviewer right after has returned D_old.
C4_Witness ==
    /\ prev.op = "checkout" /\ prev.held # <<>>
    /\ prev.held[1] # prev.arg[1]
    /\ last.op = "checkout_next" /\ last.user # prev.user /\ last.err = ""
    /\ RetUuid(last) = prev.held[1]
    /\ checked_out[prev.user] = prev.arg[1]
    /\ checked_out[last.user] = prev.held[1]

\* The three calls of C5: checkout_next(r) returned D, then checkin(r), and the
\* step now taken is a checkout_next.
C5_Case ==
    /\ prev.op = "checkout_next" /\ prev.err = ""
    /\ last.op = "checkin" /\ last.user = prev.user /\ last.err = ""
    /\ last'.op = "checkout_next"

\* C5 as claimed: after checkout_next(r) returned D and r checked in at once, D is
\* claimed by nobody and the checkout_next issued right after returns D again.
C5_CheckinThenNextReturnsSame ==
    [][C5_Case =>
        /\ RetUuid(prev) \notin Claimed(checked_out)
        /\ last'.err = ""
        /\ Len(last'.ret) = 1
        /\ RetUuid(last') = RetUuid(prev)]_vars

\* Whether r held, when it called the checkout_next that returned D, a Diff that
\* comes before D in the priority list.
HeldEarlier(call) ==
    /\ call.held # <<>>
    /\ \E i, j \in DOMAIN unprocessed :
          i < j /\ unprocessed[i] = call.held[1] /\ unprocessed[j] = RetUuid(call)

\* C5 amended: the same, for a reviewer r who did not hold, when calling
\* checkout_next, a Diff that comes before D in the priority list (checkout_next
\* replaces r's claim, which releases that earlier Diff).
C5_CheckinThenNextReturnsSameUnlessHeldEarlier ==
    [][(C5_Case /\ ~HeldEarlier(prev)) =>
        /\ RetUuid(prev) \notin Claimed(checked_out)
        /\ last'.err = ""
        /\ Len(last'.ret) = 1
        /\ RetUuid(last') = RetUuid(prev)]_vars

\* C5 witness: pending [D1, D2] with D1 held by another reviewer; r, holding
\* nothing, was handed D2 by checkout_next and has checked in at once: D2 is
\* free again and is the first unclaimed identity.
C5_Witness ==
    /\ Len(unprocessed) = 2
    /\ prev.op = "checkout_next" /\ prev.err = "" /\ prev.held = <<>>
    /\ RetUuid(prev) = unprocessed[2]
    /\ last.op = "checkin" /\ last.user = prev.user /\ last.err = ""
    /\ unprocessed[1] \in Claimed(checked_out)
    /\ unprocessed[2] \notin Claimed(checked_out)

\* C6: checkin(reviewer) by a reviewer who holds nothing fails with NoActiveClaim
\* and leaves the claim map unchanged; by a reviewer who holds a claim it removes
\* that reviewer's entry and no other.
C6_CheckinNoActiveClaim ==
    [][last'.op = "checkin" =>
        IF last'.user \notin DOMAIN checked_out
        THEN /\ last'.err = "NoActiveClaim"
             /\ checked_out' = checked_out
        ELSE /\ last'.err = ""
             /\ checked_out' =
                  [v \in DOMAIN checked_out \ {last'.user} |-> checked_out[v]]]_vars

\* C2: with reviewers running checkout_next concurrently (and checkin, but no
\* checkout), the scan of the claim map and the write of the claim act as one
\* step: no two reviewers hold the same Diff, and no two reviewers have been
\* returned the same Diff by calls neither of them has checked in since.
C2_CheckoutNextAtomic ==
    \A u, v \in Reviewers :
        u # v =>
            /\ ({u, v} \subseteq DOMAIN checked_out => checked_out[u] # checked_out[v])
            /\ ~(/\ thread[u].pc = "idle" /\ thread[v].pc = "idle"
                 /\ thread[u].out # <<>> /\ thread[u].out[1] = "ret"
                 /\ thread[v].out = thread[u].out)

\* The Versions of a page that no Version of the page is older than.
Baselines(page_uuid) ==
    {w \in DOMAIN versions :
        /\ versions[w].page_uuid = page_uuid
        /\ ~\E x \in DOMAIN versions :
              /\ versions[x].page_uuid = page_uuid
              /\ versions[x].capture_time < versions[w].capture_time}

\* The step ends the pipeline's diff_version call by a return or a raise.
DvEnds == job.pc # "idle" /\ job'.pc = "idle" /\ last'.err # "cancelled"

\* C7: a diff_version(V) call that found an ancestor other than V took as
\* ancestor a Version of V's page of the least capture_time, and ends in one of
\* two ways: it returns, and then the Diffs table has exactly one row more than
\* when the call began, with version_from the ancestor and version_to V; or it
\* raises (PageFreezerError when the response's status is not 'ok'), and then
\* the table has the rows it had and the pending deque is as it was.
C7_DiffVersionInsertsOneOrRaises ==
    [][/\ (job.pc = "oldest" /\ job'.pc = "compare") =>
            job'.anc \in Baselines(versions[job.v].page_uuid)
       /\ (DvEnds /\ job.pc # "oldest") =>
            IF last'.err = ""
            THEN /\ job.uuid \notin job.had
                 /\ DOMAIN diffs' = job.had \cup {job.uuid}
                 /\ diffs'[job.uuid].version_from = job.anc
                 /\ diffs'[job.uuid].version_to = job.v
                 /\ job.anc # job.v
            ELSE /\ DOMAIN diffs' = job.had
                 /\ unprocessed' = job.pend
       /\ (job.pc = "status" /\ job.result[1].status # "ok" /\ job' # job) =>
            /\ job'.pc = "idle"
            /\ last'.err \in {"PageFreezerError", "cancelled"}]_vars

\* C7 witness: diff_version(V) has returned, and the Diffs table holds a row
\* from a strictly older Version of V's page to V.
C7_Witness ==
    /\ last.op = "diff_version" /\ last.err = ""
    /\ \E d \in DOMAIN diffs :
          /\ diffs[d].version_to = last.arg[1]
          /\ versions[diffs[d].version_from].page_uuid
                = versions[last.arg[1]].page_uuid
          /\ versions[diffs[d].version_from].capture_time
                < versions[last.arg[1]].capture_time

\* C8: diff_version(V) for a Version V that no Version of its page is strictly
\* older than (another one may have the same capture_time) raises NoAncestor
\* when it has looked up the oldest Version, inserts no Diff row and appends
\* nothing to the pending deque.
C8_BaselineRaisesNoAncestor ==
    [][(/\ job.pc = "oldest" /\ job' # job
        /\ ~(job'.pc = "idle" /\ last'.err = "cancelled")
        /\ job.v \in Baselines(versions[job.v].page_uuid)) =>
            /\ job'.pc = "idle"
            /\ last'.op = "diff_version" /\ last'.err = "NoAncestor"
            /\ diffs' = diffs
            /\ unprocessed' = unprocessed]_vars

\* C9: the pending deque changes only when a diff_version call returns, and
\* then by the identity of the row that call inserted, put once, behind all
\* identities put there before; and checkout_next over that deque returns a
\* Diff only when every identity enqueued before it is claimed.
C9_EnqueuedOnceInOrder ==
    [][/\ unprocessed' # unprocessed =>
            /\ job.pc = "append" /\ job'.pc = "idle"
            /\ last'.op = "diff_version" /\ last'.err = ""
            /\ job.uuid \in DOMAIN diffs
            /\ job.uuid \notin Range(unprocessed)
            /\ unprocessed' = Append(unprocessed, job.uuid)
       /\ (DvEnds /\ last'.err = "") =>
            unprocessed' = Append(job.pend, job.uuid)
       /\ (/\ job' = job /\ last'.op = "checkout_next" /\ last'.err = ""
           /\ checked_out' # checked_out) =>
            \E k \in DOMAIN unprocessed :
                /\ unprocessed[k] = RetUuid(last')
                /\ \A j \in 1..(k - 1) : unprocessed[j] \in Claimed(checked_out)]_vars

\* C9 witness: two diff_version calls have enqueued a Diff each, a reviewer has
\* been handed the first by checkout_next, and then another reviewer the second.
C9_Witness ==
    /\ Len(unprocessed) = 2
    /\ diffs[unprocessed[1]].version_to # diffs[unprocessed[2]].version_to
    /\ prev.op = "checkout_next" /\ prev.err = ""
    /\ RetUuid(prev) = unprocessed[1]
    /\ last.op = "checkout_next" /\ last.err = ""
    /\ RetUuid(last) = unprocessed[2]
    /\ last.user # prev.user

\* C10: in every state, also while an insert is under way and after one was
\* cancelled or failed between two steps, every Diff row's uri names a file that
\* holds a payload with the row's diffhash, and every pending identity has a row.
C10_RowAfterPayloadThenEnqueue ==
    /\ \A d \in DOMAIN diffs :
          /\ diffs[d].uri \in DOMAIN files
          /\ files[diffs[d].uri] # <<>>
          /\ IsJson(files[diffs[d].uri][1])
          /\ DiffHash(JsonLoad(files[diffs[d].uri][1]).output.diffs) = diffs[d].diffhash
    /\ \A k \in DOMAIN unprocessed : unprocessed[k] \in DOMAIN diffs

\* C10 witness: an insert was cancelled after its row was written and before
\* its identity was enqueued, and a file that another insert left without a
\* payload exists.
C10_Witness ==
    /\ last.op = "diff_version" /\ last.err = "cancelled"
    /\ \E d \in DOMAIN diffs : d \notin Range(unprocessed)
    /\ \E l \in DOMAIN files : files[l] = <<>>

\* The stored Annotations, as records.
StoredAnnotations ==
    {[uuid |-> annotations[a][1], version_from |-> annotations[a][2],
      version_to |-> annotations[a][3], annotation |-> annotations[a][4],
      author |-> annotations[a][5]] : a \in DOMAIN annotations}

\* C11: after any sequence of Annotation inserts, by_change(version_from,
\* version_to) returns exactly the stored Annotations whose version_from and
\* whose version_to both equal the given ones: all of them, and no Annotation
\* that differs in either field.
C11_ByChangeExactlyMatching ==
    last.op = "by_change" =>
        last.ret[1] = {r \in StoredAnnotations :
                          /\ r.version_from = last.arg[1]
                          /\ r.version_to = last.arg[2]}

\* C12: a lookup of the identity that Annotations.insert(version_from,
\* version_to, judgment, author) has just returned yields a record with exactly
\* these four values; and no insert changes or removes an Annotation stored
\* before.
C12_AnnotationRoundTrip ==
    [][/\ (/\ last.op = "Annotations.insert"
           /\ last'.op = "Annotations.getitem" /\ prev' = last
           /\ last'.arg[1] = last.ret[1]) =>
            /\ last'.err = ""
            /\ Len(last'.ret) = 1
            /\ last'.ret[1].version_from = last.arg[1]
            /\ last'.ret[1].version_to = last.arg[2]
            /\ last'.ret[1].annotation = last.arg[3]
            /\ last'.ret[1].author = last.arg[4]
       /\ \A a \in DOMAIN annotations :
            a \in DOMAIN annotations' /\ annotations'[a] = annotations[a]]_vars

\* C13: a diff_version(version_id) call that succeeds returns the identity of
\* the Diff record it created, the one Diffs.insert assigned to the new row and
\* appended to the pending list.
C13_DiffVersionReturnsIdentity ==
    [][(DvEnds /\ last'.err = "") =>
        /\ last'.ret = <<job.uuid>>
        /\ job.uuid \in DOMAIN diffs' \ job.had
        /\ unprocessed' = Append(job.pend, job.uuid)]_vars

\* C14: a lookup of the identity that Diffs.insert(version_from, version_to, X,
\* ...) has just returned yields a record whose content equals X, whose
\* version_from and version_to are the inserted ones and whose diffhash is the
\* hash of X's diff body; and an insert with the diff body of the insert before
\* it gets another identity and another locator, and the same diffhash.
C14_DiffRoundTrip ==
    [][/\ (/\ last.op = "insert"
           /\ last'.op = "getitem" /\ prev' = last
           /\ last'.arg[1] = last.ret[1]) =>
            /\ last'.err = ""
            /\ Len(last'.ret) = 1
            /\ last'.ret[1].uuid = last.ret[1]
            /\ last'.ret[1].content = last.arg[3]
            /\ last'.ret[1].version_from = last.arg[1]
            /\ last'.ret[1].version_to = last.arg[2]
            /\ last'.ret[1].diffhash = DiffHash(last.arg[3].output.diffs)
       /\ (/\ last.op = "insert"
           /\ last'.op = "insert" /\ prev' = last
           /\ last'.arg[3].output.diffs = last.arg[3].output.diffs) =>
            /\ last'.ret[1] # last.ret[1]
            /\ diffs'[last'.ret[1]].uri # diffs'[last.ret[1]].uri
            /\ diffs'[last'.ret[1]].diffhash = diffs'[last.ret[1]].diffhash]_vars

\* C14 witness: two Diffs of the same diff body are stored under two identities
\* and two locators, with one diffhash; the second has just been inserted and
\* looked up, and the content returned is the payload inserted.
C14_Witness ==
    /\ prev.op = "insert"
    /\ last.op = "getitem" /\ last.arg[1] = prev.ret[1] /\ last.err = ""
    /\ last.ret[1].content = prev.arg[3]
    /\ \E d \in DOMAIN diffs :
          /\ d # prev.ret[1]
          /\ diffs[d].uri # diffs[prev.ret[1]].uri
          /\ diffs[d].diffhash = diffs[prev.ret[1]].diffhash
          /\ DiffsGetItem(diffs, files, d).ret[1].content = prev.arg[3]

\* The step is a lookup in the Versions store: a call is recorded and the
\* table and the generator are as they were.
VersionsLookupStep == prev' = last /\ versions' = versions /\ hist' = hist

\* C15: with the stored Versions unchanged, two calls of Versions.oldest(page)
\* one after the other return the same Version, also when several Versions of
\* the page share the least capture_time.
C15_OldestDeterministic ==
    [][(/\ last.op = "oldest" /\ last.err = ""
        /\ VersionsLookupStep /\ last'.op = "oldest"
        /\ last'.arg = last.arg) =>
            last'.ret = last.ret]_vars

\* C16: a lookup of an absent entity fails with NotFoundError and returns no
\* record: Versions.oldest(page) for a page without Versions, and the lookup of
\* an identity that no insert assigned.
C16_AbsentRaisesNotFound ==
    [][(/\ VersionsLookupStep
        /\ \/ last'.op = "oldest" /\ VersionsOf(versions, last'.arg[1]) = {}
           \/ last'.op = "Versions.getitem" /\ last'.arg[1] \notin DOMAIN versions) =>
            /\ last'.err = "NotFoundError"
            /\ last'.ret = <<>>]_vars

\* C20: a Versions.history(page) generator iterated to its end has yielded
\* every Version of the page exactly once, in non-increasing capture_time order,
\* and no Version of another page, and has ended as an iteration ends, with no
\* error for its consumer; for a page without Versions it has yielded nothing.
C20_HistoryYieldsAllThenEnds ==
    hist.pc = "closed" =>
        /\ hist.end = "StopIteration"
        /\ Range(hist.yielded) = hist.had
        /\ Len(hist.yielded) = Cardinality(hist.had)
        /\ \A i \in DOMAIN hist.yielded :
              versions[hist.yielded[i]].page_uuid = hist.page
        /\ \A i, j \in DOMAIN hist.yielded :
              i < j => versions[hist.yielded[i]].capture_time
                          >= versions[hist.yielded[j]].capture_time

\* The step is a call of the work queue (checkout_next, checkout or checkin).
QueueStep == prev' = last /\ last'.op \in {"checkout_next", "checkout", "checkin"}

\* C17 as claimed: a Diff that is claimed through checkout_next or checkout is
\* taken off the pending list, so that the list holds only Diffs nobody holds.
C17_ClaimedLeavesPending ==
    \A k \in DOMAIN unprocessed : unprocessed[k] \notin Claimed(checked_out)

\* C17 amended: no call of the work queue changes the pending list; the Diff
\* that checkout_next hands out was in the list and unclaimed, and after the
\* call it is claimed and is in the list still, at the place it had.
C17_ClaimedStaysPending ==
    [][QueueStep =>
        /\ unprocessed' = unprocessed
        /\ (last'.op = "checkout_next" /\ last'.err = "") =>
              \E k \in DOMAIN unprocessed :
                  /\ unprocessed[k] = RetUuid(last')
                  /\ unprocessed[k] \notin Claimed(checked_out)
                  /\ unprocessed'[k] \in Claimed(checked_out')]_vars

\* C17 witness: both Diffs of the pending list are claimed, the second one handed
\* out by the checkout_next just made, and both are in the list.
C17_Witness ==
    /\ Len(unprocessed) = 2
    /\ last.op = "checkout_next" /\ last.err = ""
    /\ RetUuid(last) = unprocessed[2]
    /\ {unprocessed[1], unprocessed[2]} \subseteq Claimed(checked_out)

\* The Diff that the call of the step loads: the argument of checkout, the
\* first unclaimed identity for checkout_next (none when all are claimed).
LoadTarget ==
    IF last'.op = "checkout" THEN <<last'.arg[1]>>
    ELSE IF FreePositions(unprocessed, checked_out) = {} THEN <<>>
    ELSE <<unprocessed[Least(FreePositions(unprocessed, checked_out))]>>

\* C18: a checkout_next or checkout that fails to load the Diff (no index record
\* for the identity, or a payload that cannot be read) raises and leaves the
\* claim map as it was before the call: no claim on that Diff is recorded, and
\* the caller's earlier claim is not released.
C18_FailedLoadLeavesClaims ==
    [][(/\ QueueStep /\ last'.op \in {"checkout_next", "checkout"}
        /\ LoadTarget # <<>>
        /\ DiffsGetItem(diffs, files, LoadTarget[1]).err # "") =>
            /\ last'.err \notin {"", "EmptyWorkQueue"}
            /\ checked_out' = checked_out]_vars

\* C19: checkout_next by a reviewer who holds Diff D never returns D: it returns
\* another Diff, one that nobody held, and the reviewer then holds that one
\* instead of D (D is released, unless another reviewer holds it too), the
\* other claims unchanged; or it raises EmptyWorkQueue and the claim map stays
\* as it was, the reviewer holding D.  (A reviewer holds at most one Diff: the
\* claim map is a dict keyed by reviewer.)
C19_CheckoutNextNeverReturnsHeld ==
    [][(QueueStep /\ last'.op = "checkout_next" /\ last'.held # <<>>) =>
        \/ /\ last'.err = ""
           /\ Len(last'.ret) = 1
           /\ RetUuid(last') # last'.held[1]
           /\ RetUuid(last') \notin Claimed(checked_out)
           /\ DOMAIN checked_out' = DOMAIN checked_out
           /\ checked_out'[last'.user] = RetUuid(last')
           /\ \A v \in DOMAIN checked_out \ {last'.user} :
                 checked_out'[v] = checked_out[v]
        \/ /\ last'.err = "EmptyWorkQueue"
           /\ checked_out' = checked_out
           /\ checked_out'[last'.user] = last'.held[1]]_vars

\* C19 witness: a reviewer who held a Diff was handed another one by
\* checkout_next, and the checkout_next after it, by a reviewer holding a Diff,
\* raised EmptyWorkQueue and left that reviewer's claim.
C19_Witness ==
    /\ prev.op = "checkout_next" /\ prev.err = "" /\ prev.held # <<>>
    /\ RetUuid(prev) # prev.held[1]
    /\ last.op = "checkout_next" /\ last.err = "EmptyWorkQueue" /\ last.held # <<>>
    /\ checked_out[last.user] = last.held[1]

====
